---- MODULE Spec2Model ----
(***************************************************************************)
(* The tick-to-signal pipeline of the Indian stock scanner backend:        *)
(* WebSocketClient.on_data feeds data_queue, and                           *)
(* ProcessingEngine.start_processing_loop drains it, one tick at a time,   *)
(* into minute bars (data_store), opening ranges (opening_ranges), index   *)
(* states (index_data) and breakout signals (scan_results).                *)
(*                                                                         *)
(* Units.  Tick prices arrive as integers in paise.  The engine divides    *)
(* them by 100; the inputs of the model are whole rupees (multiples of     *)
(* 100 paise), so Rupees(x) = x \div 100 is the exact value of             *)
(* float(x) / 100.0 and every comparison of the code is a comparison of    *)
(* integers.  Wall-clock time is counted in minutes; a time stamp is       *)
(* day * MinutesPerDay + minute of the day.                                *)
(***************************************************************************)
EXTENDS Integers, Sequences, FiniteSets, TLC

VARIABLES
    data_queue,      \* websocket_client.data_queue: the ticks not yet consumed
    data_store,      \* ProcessingEngine.data_store: token -> sequence of bars
    scan_results,    \* ProcessingEngine.scan_results: token -> Signal
    opening_ranges,  \* ProcessingEngine.opening_ranges: token -> {high, low}
    index_data,      \* ProcessingEngine.index_data: index token -> IndexState
    clock,           \* the last value datetime.now(ist) returned to the loop
    pc,              \* where the consumer is: "get" (awaiting data_queue.get())
                     \* or "fetch" (inside getCandleData)
    inflight,        \* the locals of the interrupted iteration while pc = "fetch"
    last,            \* history: the tick handled last, when, and which branch
    scored,          \* history: the indicator values calculate_final_score saw in
                     \* the step just taken (NoIndicators if it was not called)
    retro_calls,     \* history: token -> calls of get_opening_range_retroactively
    gated,           \* history: tokens whose Signal the liquidity filter removed
    once,            \* history of SpecRetro: opening_ranges after the first call
    received,        \* history: number of on_data calls so far
    snapshot,        \* the payload of the last update_message of the broadcaster
    published,       \* history: what the last cycle of the broadcaster did, if no
                     \* tick has been handled since: "sent", "skipped" or "none"
    response,        \* the last response of GET /intraday-history/{token}
    premarket        \* fetch_historical_data of premarket_scanner.py: its token,
                     \* its locals i and delay, what it returned, and as history
                     \* the responses it got and the seconds it slept

vars == <<data_queue, data_store, scan_results, opening_ranges, index_data,
          clock, pc, inflight, last, scored, retro_calls, gated, once, received,
          snapshot, published, response, premarket>>

(***************************************************************************)
(* Bounds of the model.                                                    *)
(***************************************************************************)
MaxTicks == 3       \* ticks delivered by the feed in one behaviour
MaxQueue == 2       \* ticks waiting in data_queue that the model explores
MaxDay == 2         \* trading days the process stays up, in SpecDays
MaxCandles == 1     \* candles in a historical response to the loop (one more in SpecRetro)
MaxSignals == 6     \* instruments of the watchlist of SpecSnapshot

(***************************************************************************)
(* Constants of the program.                                               *)
(***************************************************************************)
NONE == -1                    \* Python's None in a numeric field of a tick
BAD == -2                     \* a value float() rejects, such as a string of letters
opening_range_start == 555    \* time(9, 15), in minutes of the day
opening_range_end == 570      \* time(9, 30)
MinutesPerDay == 1440
MIN_BARS == 30                \* len(df) < 30 -> score 0
TOP_N == 5                    \* bullish_stocks[:5], bearish_stocks[:5]

\* settings.TOKEN_MAP: the day's watchlist, one instrument per bias value.
TOKEN_MAP ==
    [t \in {"T1", "T2", "T3"} |->
        [symbol |-> IF t = "T1" THEN "S1-EQ" ELSE IF t = "T2" THEN "S2-EQ" ELSE "S3-EQ",
         bias   |-> IF t = "T1" THEN "Bullish" ELSE IF t = "T2" THEN "Bearish" ELSE "Neutral"]]

\* settings.INDEX_TOKENS
INDEX_TOKENS == [t \in {"26000"} |-> "NIFTY 50"]

Stocks == DOMAIN TOKEN_MAP
Indices == DOMAIN INDEX_TOKENS

(***************************************************************************)
(* Inputs: the ticks the feed may deliver and the times the loop may read. *)
(* A book of bid 200.00 / ask 201.00 is a spread of 0.5025% at a last      *)
(* price of 199.00 (too wide), of exactly 0.5% at 200.00 and of 0.4975% at *)
(* 201.00 (both acceptable).                                               *)
(***************************************************************************)
Prices == {19900, 20000, 20100}          \* paise
OpenPrices == {20000}
Volumes == {1}
CumulativeVolumes == {1, 3}              \* a cumulative volume that rises and falls

\* best_5_*_price_and_quantity: a list of {price, quantity}; empty = absent.
NoBook == [buy |-> << >>, sell |-> << >>]
NoBid == [buy |-> << >>, sell |-> <<[price |-> 20100]>>]
FullBook == [buy |-> <<[price |-> 20000]>>, sell |-> <<[price |-> 20100]>>]
Books == {NoBid, FullBook}

Tick(tok, ltp, op, vol, book) ==
    [token |-> tok, last_traded_price |-> ltp, open_price_of_the_day |-> op,
     volume_trade_for_the_day |-> vol,
     best_5_buy_price_and_quantity |-> book.buy,
     best_5_sell_price_and_quantity |-> book.sell]

StockTicks(tokens, prices, books) ==
    { Tick(tok, p, o, v, b) : tok \in tokens, p \in prices, o \in OpenPrices,
                              v \in Volumes, b \in books }
IndexTicks ==
    { Tick(tok, 20100, 20000, v, NoBook) : tok \in Indices, v \in {NONE, 1} }
    \cup { Tick(tok, 20100, 0, 1, NoBook) : tok \in Indices }
IncompleteTicks == { Tick("T1", NONE, 20000, 1, NoBook) }

\* the feed of SpecIntake: a tick without each of the four required fields,
\* index ticks with and without a book, and the tick that gives the Bullish
\* instrument a bar, a range and a Signal
MissingFieldTicks ==
    { Tick("None", 20100, 20000, 1, FullBook),
      Tick("T1", NONE, 20000, 1, FullBook),
      Tick("T1", 20100, NONE, 1, FullBook),
      Tick("T1", 20100, 20000, NONE, FullBook) }
IntakeTicks ==
    MissingFieldTicks \cup IndexTicks
    \cup { Tick(tok, 19900, 20000, 1, FullBook) : tok \in Indices }
    \cup { Tick("T1", 20100, 20000, 1, FullBook) }

\* ticks whose handling raises: at float(ltp), at float(cumulative_volume),
\* and at the float() of _safe_get_best_price
FaultTicks ==
    { Tick("T1", BAD, 20000, 1, FullBook),
      Tick("T1", 20100, 20000, BAD, FullBook),
      Tick("T1", 20100, 20000, 1,
           [buy |-> <<[price |-> BAD]>>, sell |-> <<[price |-> 20100]>>]) }

\* the feed of Spec: every kind of tick, one trading day
Ticks == StockTicks(Stocks, Prices, Books) \cup IndexTicks \cup IncompleteTicks
\* the feed of SpecDays: the Bullish instrument, followed over MaxDay days
DayTicks == StockTicks({"T1"}, Prices, Books)
\* the feed of SpecQuoted: every instrument, every tick with a bid and an ask
QuotedTicks == StockTicks(Stocks, Prices, {FullBook})

\* the feed of SpecBars: one instrument, every price, both cumulative volumes
BarTicks ==
    { Tick("T1", p, o, v, FullBook) : p \in Prices, o \in OpenPrices,
                                      v \in CumulativeVolumes }

DayMinutes == {554, 555, 570}            \* 09:14, 09:15, 09:30
ClockValues(days) ==
    { d * MinutesPerDay + m : d \in 0 .. (days - 1), m \in DayMinutes }

(***************************************************************************)
(* Python dictionaries are functions whose domain is the set of keys.      *)
(***************************************************************************)
EmptyDict == << >>
Put(d, k, v) == [x \in (DOMAIN d) \cup {k} |-> IF x = k THEN v ELSE d[x]]
Pop(d, k) == [x \in (DOMAIN d) \ {k} |-> d[x]]

Max(a, b) == IF a >= b THEN a ELSE b
Min(a, b) == IF a <= b THEN a ELSE b

\* float(x) / 100.0 on the model's inputs
Rupees(x) == x \div 100

\* now_ist.time()
TimeOfDay(now) == now % MinutesPerDay
DayOf(now) == now \div MinutesPerDay

\* a window test that forgets the upper end
InOpeningWindow_NoEnd(now) == opening_range_start <= TimeOfDay(now)

\* opening_range_start <= now_time < opening_range_end
InOpeningWindow(now) ==
    opening_range_start <= TimeOfDay(now) /\ TimeOfDay(now) < opening_range_end

\* a post-window test that is always taken
AfterOpeningWindow_Always(now) == TRUE

\* now_time >= opening_range_end
AfterOpeningWindow(now) == TimeOfDay(now) >= opening_range_end

(***************************************************************************)
(* _safe_get_best_price: the price of the first entry of the list under    *)
(* key, or 0 when the list is missing or empty.                            *)
(***************************************************************************)
_safe_get_best_price(tick, key) ==
    LET arr == tick[key]
    IN  IF Len(arr) > 0 THEN arr[1].price ELSE 0

\* float(first.get("price", 0) or 0) raises for one of the two lists
BookRaises(tick) ==
    \E key \in {"best_5_buy_price_and_quantity", "best_5_sell_price_and_quantity"} :
        Len(tick[key]) > 0 /\ tick[key][1].price = BAD

\* where the consumer is after "except Exception" has logged (lines 266-267)
AfterException_Escapes == "dead"
AfterException == "get"

\* a completeness test that does not look at the volume
IncompleteTick_IgnoresVolume(tick) ==
    \/ tick.token = "None"
    \/ tick.last_traded_price = NONE
    \/ tick.open_price_of_the_day = NONE

\* not all([token is not None, ltp is not None, open is not None, volume is not None])
IncompleteTick(tick) ==
    \/ tick.token = "None"
    \/ tick.last_traded_price = NONE
    \/ tick.open_price_of_the_day = NONE
    \/ tick.volume_trade_for_the_day = NONE

\* if not (best_bid and best_ask): continue
BookMissing(best_bid, best_ask) == ~(best_bid # 0 /\ best_ask # 0)

(***************************************************************************)
(* spread_percentage = ((ask - bid) / price) * 100 if price > 0 else 0,    *)
(* and the test spread_percentage > 0.5.  With bid, ask and price whole    *)
(* rupees, (ask - bid) / price * 100 > 1/2 is 200 * (ask - bid) > price.   *)
(***************************************************************************)
SpreadTooWide(best_bid, best_ask, price) ==
    LET bid == Rupees(best_bid)
        ask == Rupees(best_ask)
    IN  IF price > 0 THEN 200 * (ask - bid) > price ELSE FALSE

\* a liquidity filter that skips the tick and leaves the Signal in place
RemoveSignal_Skip(results, token) == results

\* self.scan_results.pop(token, None), line 226
RemoveSignal(results, token) == Pop(results, token)

\* a loop that fetches on every post-window tick
NeedsRetroFetch_Always(ranges, token) == TRUE

\* if token not in self.opening_ranges, line 242
NeedsRetroFetch(ranges, token) == token \notin DOMAIN ranges

(***************************************************************************)
(* The bar aggregator, lines 192-215: the bar of the current minute is     *)
(* created from the tick or updated in place.                              *)
(***************************************************************************)
\* an index test that never finds the minute
HasBar_Never(df, ts) == FALSE

\* current_bar_timestamp in df.index
HasBar(df, ts) == \E i \in 1 .. Len(df) : df[i].timestamp = ts
BarAt(df, ts) == CHOOSE i \in 1 .. Len(df) : df[i].timestamp = ts

\* an aggregator that takes the volume delta as it comes
UpdateBars_NoClamp(df, ts, price, cumulative_volume) ==
    LET last_total_volume == IF Len(df) > 0 THEN df[Len(df)].last_volume ELSE 0
        minute_volume == cumulative_volume - last_total_volume
    IN  IF ~HasBar(df, ts)
        THEN Append(df, [timestamp |-> ts, open |-> price, high |-> price,
                         low |-> price, close |-> price, volume |-> minute_volume,
                         last_volume |-> cumulative_volume])
        ELSE LET i == BarAt(df, ts)
                 row == df[i]
             IN  [df EXCEPT ![i] =
                     [row EXCEPT !.high = Max(row.high, price),
                                 !.low = Min(row.low, price),
                                 !.close = price,
                                 !.volume = row.volume + minute_volume,
                                 !.last_volume = cumulative_volume]]

\* an aggregator that remembers the largest cumulative volume it has seen
UpdateBars_KeepPeak(df, ts, price, cumulative_volume) ==
    LET last_total_volume == IF Len(df) > 0 THEN df[Len(df)].last_volume ELSE 0
        minute_volume == Max(cumulative_volume - last_total_volume, 0)
        peak == Max(cumulative_volume, last_total_volume)
    IN  IF ~HasBar(df, ts)
        THEN Append(df, [timestamp |-> ts, open |-> price, high |-> price,
                         low |-> price, close |-> price, volume |-> minute_volume,
                         last_volume |-> peak])
        ELSE LET i == BarAt(df, ts)
                 row == df[i]
             IN  [df EXCEPT ![i] =
                     [row EXCEPT !.high = Max(row.high, price),
                                 !.low = Min(row.low, price),
                                 !.close = price,
                                 !.volume = row.volume + minute_volume,
                                 !.last_volume = peak]]

\* an aggregator that adds the tick's cumulative volume to the bar
UpdateBars_AddCumulative(df, ts, price, cumulative_volume) ==
    IF ~HasBar(df, ts)
    THEN Append(df, [timestamp |-> ts, open |-> price, high |-> price,
                     low |-> price, close |-> price, volume |-> cumulative_volume,
                     last_volume |-> cumulative_volume])
    ELSE LET i == BarAt(df, ts)
             row == df[i]
         IN  [df EXCEPT ![i] =
                 [row EXCEPT !.high = Max(row.high, price),
                             !.low = Min(row.low, price),
                             !.close = price,
                             !.volume = row.volume + cumulative_volume,
                             !.last_volume = cumulative_volume]]

\* an aggregator that takes the delta from the cumulative volume kept with
\* the oldest bar
UpdateBars_FromFirstBar(df, ts, price, cumulative_volume) ==
    LET last_total_volume == IF Len(df) > 0 THEN df[1].last_volume ELSE 0
        minute_volume == Max(cumulative_volume - last_total_volume, 0)
    IN  IF ~HasBar(df, ts)
        THEN Append(df, [timestamp |-> ts, open |-> price, high |-> price,
                         low |-> price, close |-> price, volume |-> minute_volume,
                         last_volume |-> cumulative_volume])
        ELSE LET i == BarAt(df, ts)
                 row == df[i]
             IN  [df EXCEPT ![i] =
                     [row EXCEPT !.high = Max(row.high, price),
                                 !.low = Min(row.low, price),
                                 !.close = price,
                                 !.volume = row.volume + minute_volume,
                                 !.last_volume = cumulative_volume]]

UpdateBars(df, ts, price, cumulative_volume) ==
    LET last_total_volume == IF Len(df) > 0 THEN df[Len(df)].last_volume ELSE 0
        minute_volume == Max(cumulative_volume - last_total_volume, 0)
    IN  IF ~HasBar(df, ts)
        THEN Append(df, [timestamp |-> ts, open |-> price, high |-> price,
                         low |-> price, close |-> price, volume |-> minute_volume,
                         last_volume |-> cumulative_volume])
        ELSE LET i == BarAt(df, ts)
                 row == df[i]
             IN  [df EXCEPT ![i] =
                     [row EXCEPT !.high = Max(row.high, price),
                                 !.low = Min(row.low, price),
                                 !.close = price,
                                 !.volume = row.volume + minute_volume,
                                 !.last_volume = cumulative_volume]]

\* data_store after lines 192-215
StoreTick(store, token, ts, price, cumulative_volume) ==
    LET df == IF token \in DOMAIN store THEN store[token] ELSE << >>
    IN  Put(store, token, UpdateBars(df, ts, price, cumulative_volume))

(***************************************************************************)
(* Opening range collection, lines 230-236.                                *)
(***************************************************************************)
CollectRange(ranges, token, price) ==
    IF token \notin DOMAIN ranges
    THEN Put(ranges, token, [high |-> price, low |-> price])
    ELSE Put(ranges, token, [high |-> Max(ranges[token].high, price),
                             low  |-> Min(ranges[token].low, price)])

(***************************************************************************)
(* The historical fetch.  A response of getCandleData is a call that       *)
(* raises, or a dictionary {status, data} whose data is a list of candles; *)
(* only the high and the low of a candle are read.                         *)
(***************************************************************************)
CandlePrices == {20000, 20100}           \* paise
Candles == { c \in [high : CandlePrices, low : CandlePrices] : c.low <= c.high }
CandleLists(len) == UNION { [1 .. n -> Candles] : n \in 0 .. len }
Responses(len) ==
    { [raises |-> TRUE, status |-> FALSE, data |-> << >>],
      [raises |-> FALSE, status |-> FALSE, data |-> << >>] }
    \cup { [raises |-> FALSE, status |-> TRUE, data |-> d] : d \in CandleLists(len) }

RECURSIVE MaxHigh(_)
MaxHigh(d) ==
    IF Len(d) = 1 THEN Rupees(d[1].high)
    ELSE Max(Rupees(d[1].high), MaxHigh(Tail(d)))

RECURSIVE MinLow(_)
MinLow(d) ==
    IF Len(d) = 1 THEN Rupees(d[1].low)
    ELSE Min(Rupees(d[1].low), MinLow(Tail(d)))

\* data.get("status") and data.get("data")
FetchSucceeded(resp) == ~resp.raises /\ resp.status /\ Len(resp.data) > 0

\* the range installed when the fetch did not succeed (lines 152 and 155)
FallbackRange(open_price_of_day) ==
    [high |-> open_price_of_day, low |-> open_price_of_day]

\* a fetch whose failure branches only log
get_opening_range_retroactively_NoFallback(ranges, token, open_price_of_day, resp) ==
    IF FetchSucceeded(resp)
    THEN Put(ranges, token, [high |-> MaxHigh(resp.data), low |-> MinLow(resp.data)])
    ELSE ranges

\* opening_ranges after get_opening_range_retroactively returns
get_opening_range_retroactively(ranges, token, open_price_of_day, resp) ==
    IF FetchSucceeded(resp)
    THEN Put(ranges, token, [high |-> MaxHigh(resp.data), low |-> MinLow(resp.data)])
    ELSE Put(ranges, token, FallbackRange(open_price_of_day))

(***************************************************************************)
(* Scoring.  The indicator columns come from the ta library; the model     *)
(* takes what the code reads of them: whether the computation raised, the  *)
(* number of rows left by dropna, the RSI of the last row, and the signs   *)
(* of macd - macd_signal (previous and last row) and of close - vwap.      *)
(***************************************************************************)
Signs == {-1, 0, 1}
NoIndicators ==
    [raises |-> FALSE, rows |-> 1, rsi |-> 35, prev_macd |-> 0, last_macd |-> 0,
     close_vwap |-> 0]
\* a computation that raised or left fewer than two rows has no values to read
Indicators ==
    { NoIndicators, [NoIndicators EXCEPT !.raises = TRUE] }
    \cup [raises : {FALSE}, rows : {2}, rsi : {34, 35, 65, 66},
          prev_macd : Signs, last_macd : Signs, close_vwap : Signs]

\* the bar series is long enough for the indicators to be computed
EnoughBars(store, token) == token \in DOMAIN store /\ Len(store[token]) >= MIN_BARS

StockInfo(token) ==
    IF token \in DOMAIN TOKEN_MAP THEN TOKEN_MAP[token]
    ELSE [symbol |-> "None", bias |-> "None"]

\* a scorer without the test of the series length
calculate_final_score_NoMinBars(store, token, ind) ==
    IF ind.raises THEN 0
    ELSE IF ind.rows < 2 THEN 0
    ELSE LET bias == StockInfo(token).bias
         IN  IF bias = "Bullish"
             THEN (IF ind.rsi > 65 THEN 40 ELSE 0)
                  + (IF ind.prev_macd < 0 /\ ind.last_macd > 0 THEN 40 ELSE 0)
                  + (IF ind.close_vwap > 0 THEN 20 ELSE 0)
             ELSE IF bias = "Bearish"
             THEN (IF ind.rsi < 35 THEN 40 ELSE 0)
                  + (IF ind.prev_macd > 0 /\ ind.last_macd < 0 THEN 40 ELSE 0)
                  + (IF ind.close_vwap < 0 THEN 20 ELSE 0)
             ELSE 0

\* a scorer that gives the VWAP condition the weight of the other two
calculate_final_score_EqualWeights(store, token, ind) ==
    IF ~EnoughBars(store, token) THEN 0
    ELSE IF ind.raises THEN 0
    ELSE IF ind.rows < 2 THEN 0
    ELSE LET bias == StockInfo(token).bias
         IN  IF bias = "Bullish"
             THEN (IF ind.rsi > 65 THEN 40 ELSE 0)
                  + (IF ind.prev_macd < 0 /\ ind.last_macd > 0 THEN 40 ELSE 0)
                  + (IF ind.close_vwap > 0 THEN 40 ELSE 0)
             ELSE IF bias = "Bearish"
             THEN (IF ind.rsi < 35 THEN 40 ELSE 0)
                  + (IF ind.prev_macd > 0 /\ ind.last_macd < 0 THEN 40 ELSE 0)
                  + (IF ind.close_vwap < 0 THEN 40 ELSE 0)
             ELSE 0

calculate_final_score(store, token, ind) ==
    IF ~EnoughBars(store, token) THEN 0
    ELSE IF ind.raises THEN 0
    ELSE IF ind.rows < 2 THEN 0
    ELSE LET bias == StockInfo(token).bias
         IN  IF bias = "Bullish"
             THEN (IF ind.rsi > 65 THEN 40 ELSE 0)
                  + (IF ind.prev_macd < 0 /\ ind.last_macd > 0 THEN 40 ELSE 0)
                  + (IF ind.close_vwap > 0 THEN 20 ELSE 0)
             ELSE IF bias = "Bearish"
             THEN (IF ind.rsi < 35 THEN 40 ELSE 0)
                  + (IF ind.prev_macd > 0 /\ ind.last_macd < 0 THEN 40 ELSE 0)
                  + (IF ind.close_vwap < 0 THEN 20 ELSE 0)
             ELSE 0

(***************************************************************************)
(* Post-ORB logic, lines 246-261.                                          *)
(***************************************************************************)
\* a breakout test that accepts the boundary
IsBreakout_NonStrict(bias, price, orb) ==
    \/ bias = "Bullish" /\ price >= orb.high
    \/ bias = "Bearish" /\ price <= orb.low

IsBreakout(bias, price, orb) ==
    \/ bias = "Bullish" /\ price > orb.high
    \/ bias = "Bearish" /\ price < orb.low

\* the tick reaches line 258: its instrument has a range and breaks out of it
Scoring(ranges, token, price) ==
    /\ token \in DOMAIN ranges
    /\ IsBreakout(StockInfo(token).bias, price, ranges[token])

EvaluateBreakout(results, ranges, store, token, price, ind) ==
    IF token \notin DOMAIN ranges THEN results
    ELSE LET stock_info == StockInfo(token)
             orb == ranges[token]
         IN  IF IsBreakout(stock_info.bias, price, orb)
             THEN Put(results, token,
                      [symbol |-> stock_info.symbol,
                       score |-> 100 + calculate_final_score(store, token, ind),
                       price |-> price, bias |-> stock_info.bias])
             ELSE Pop(results, token)

(***************************************************************************)
(* Index ticks, lines 185-190.  percent_change is held in hundredths of a  *)
(* percent, so that (change / opening) * 100 = 0.5 is the integer 50.      *)
(***************************************************************************)
\* an index state whose percent change is never computed
IndexState_NoPercent(token, price, open_price_day) ==
    LET opening == Rupees(open_price_day)
        change == price - opening
    IN  [name |-> INDEX_TOKENS[token], ltp |-> price, change |-> change,
         percent_change |-> 0]

IndexState(token, price, open_price_day) ==
    LET opening == Rupees(open_price_day)
        change == price - opening
    IN  [name |-> INDEX_TOKENS[token], ltp |-> price, change |-> change,
         percent_change |-> IF opening > 0 THEN (change * 10000) \div opening ELSE 0]

(***************************************************************************)
(* The branch one iteration of the loop takes for a tick read at time now: *)
(* each value but "fetch" and "evaluate" is one of the loop's continue     *)
(* statements ("idle" is a tick before the window, for which both time     *)
(* tests fail) or, for "raise_price" (line 183), "raise_volume" (line 203) *)
(* and "raise_book" (lines 218-219), the line that raises into the         *)
(* "except Exception" of the loop.                                         *)
(***************************************************************************)
Branch(tick, now, ranges) ==
    IF IncompleteTick(tick) THEN "incomplete"
    ELSE IF tick.last_traded_price = BAD THEN "raise_price"
    ELSE IF tick.token \in DOMAIN INDEX_TOKENS THEN "index"
    ELSE IF tick.volume_trade_for_the_day = BAD THEN "raise_volume"
    ELSE IF BookRaises(tick) THEN "raise_book"
    ELSE LET price == Rupees(tick.last_traded_price)
             best_bid == _safe_get_best_price(tick, "best_5_buy_price_and_quantity")
             best_ask == _safe_get_best_price(tick, "best_5_sell_price_and_quantity")
         IN  IF BookMissing(best_bid, best_ask) THEN "nobook"
             ELSE IF SpreadTooWide(best_bid, best_ask, price) THEN "spread"
             ELSE IF InOpeningWindow(now) THEN "collect"
             ELSE IF AfterOpeningWindow(now)
                  THEN (IF NeedsRetroFetch(ranges, tick.token) THEN "fetch"
                        ELSE "evaluate")
                  ELSE "idle"

NoTick == Tick("None", NONE, NONE, NONE, NoBook)
NoSnapshot == [bullish |-> << >>, bearish |-> << >>, indices |-> << >>]
NoInflight == [token |-> "None", price |-> 0, day_open |-> 0]

\* premarket_scanner.py is a script of its own: the server never calls it
NotCalled ==
    [token |-> "None", i |-> 0, delay |-> 0, result |-> "not called",
     rows |-> 0, responses |-> << >>, sleeps |-> << >>]

(***************************************************************************)
(* The indicator values handed to the scorer when a tick at price breaks   *)
(* out of its range: any value once the series is within two bars of       *)
(* MIN_BARS, so that both sides of the test of line 68 are met with every  *)
(* value; one value for the short series of a store that started empty,    *)
(* and for a tick that does not reach line 258.                            *)
(***************************************************************************)
IndicatorChoices(store, ranges, token, price) ==
    IF /\ Scoring(ranges, token, price)
       /\ token \in DOMAIN store
       /\ Len(store[token]) >= MIN_BARS - 2
    THEN Indicators ELSE {NoIndicators}

Init ==
    /\ data_queue = << >>
    /\ data_store = EmptyDict
    /\ scan_results = EmptyDict
    /\ opening_ranges = EmptyDict
    /\ index_data = EmptyDict
    /\ clock = 554
    /\ pc = "get"
    /\ inflight = NoInflight
    /\ last = [tick |-> NoTick, path |-> "none"]
    /\ scored = NoIndicators
    /\ retro_calls = [t \in Stocks |-> 0]
    /\ gated = {}
    /\ once = EmptyDict
    /\ received = 0
    /\ snapshot = NoSnapshot
    /\ published = "none"
    /\ response = << >>
    /\ premarket = NotCalled

(***************************************************************************)
(* websocket_client.data_queue is asyncio.Queue(), made without a maxsize: *)
(* the maxsize is 0, which stands for a queue without a bound, and such a  *)
(* queue is never full.                                                    *)
(***************************************************************************)
maxsize == 0
QueueFull(queue) == maxsize > 0 /\ Len(queue) >= maxsize

\* a queue that hands out the newest tick first
put_nowait_Front(queue, message) == <<message>> \o queue

\* Queue.put_nowait on a queue that is not full
put_nowait(queue, message) == Append(queue, message)

(***************************************************************************)
(* WebSocketClient.on_data: the feed delivers a tick; put_nowait appends   *)
(* it to the queue, or raises QueueFull, which is logged, and the tick is  *)
(* dropped.  MaxQueue is the depth to which the queue is followed.         *)
(***************************************************************************)
on_data(message) ==
    /\ received < MaxTicks
    /\ Len(data_queue) < MaxQueue
    /\ data_queue' = IF QueueFull(data_queue) THEN data_queue
                     ELSE put_nowait(data_queue, message)
    /\ received' = received + 1
    /\ scored' = NoIndicators
    /\ UNCHANGED <<data_store, scan_results, opening_ranges, index_data, clock,
                   pc, inflight, last, retro_calls, gated, once, snapshot,
                   published, response, premarket>>

(***************************************************************************)
(* One iteration of start_processing_loop, from data_queue.get() to the    *)
(* continue that ends it, or to the call of getCandleData.                 *)
(***************************************************************************)
Iteration(tick_data, now, ind) ==
    LET path == Branch(tick_data, now, opening_ranges)
        token == tick_data.token
        price == Rupees(tick_data.last_traded_price)
        bars == IF path \in {"incomplete", "index", "raise_price"} THEN data_store
                ELSE IF path = "raise_volume"
                THEN (IF token \in DOMAIN data_store THEN data_store
                      ELSE Put(data_store, token, << >>))
                ELSE StoreTick(data_store, token, now, price,
                               tick_data.volume_trade_for_the_day)
    IN  /\ data_queue' = Tail(data_queue)
        /\ clock' = now
        /\ data_store' = bars
        /\ index_data' =
             IF path = "index"
             THEN Put(index_data, token,
                      IndexState(token, price, tick_data.open_price_of_the_day))
             ELSE index_data
        /\ opening_ranges' =
             IF path = "collect" THEN CollectRange(opening_ranges, token, price)
             ELSE opening_ranges
        /\ scan_results' =
             IF path = "spread" THEN RemoveSignal(scan_results, token)
             ELSE IF path = "evaluate"
             THEN EvaluateBreakout(scan_results, opening_ranges, bars, token, price, ind)
             ELSE scan_results
        /\ pc' = IF path = "fetch" THEN "fetch"
                 ELSE IF path \in {"raise_price", "raise_volume", "raise_book"}
                 THEN AfterException
                 ELSE "get"
        /\ inflight' =
             IF path = "fetch"
             THEN [token |-> token, price |-> price,
                   day_open |-> Rupees(tick_data.open_price_of_the_day)]
             ELSE NoInflight
        /\ retro_calls' =
             IF path = "fetch" THEN [retro_calls EXCEPT ![token] = @ + 1]
             ELSE retro_calls
        /\ last' = [tick |-> tick_data, path |-> path]
        /\ scored' = IF path = "evaluate" /\ Scoring(opening_ranges, token, price)
                     THEN ind ELSE NoIndicators
        /\ gated' = IF path = "spread" /\ token \in DOMAIN scan_results
                    THEN gated \cup {token} ELSE gated
        /\ published' = "none"
        /\ UNCHANGED <<once, received, snapshot, response, premarket>>

ProcessTick(times) ==
    /\ pc = "get"
    /\ data_queue # << >>
    /\ \E now \in times :
         /\ now >= clock
         /\ LET tick_data == Head(data_queue)
                seen == IF Branch(tick_data, now, opening_ranges) = "evaluate"
                        THEN StoreTick(data_store, tick_data.token, now,
                                       Rupees(tick_data.last_traded_price),
                                       tick_data.volume_trade_for_the_day)
                        ELSE data_store
            IN  \E ind \in IndicatorChoices(seen, opening_ranges, tick_data.token,
                                             Rupees(tick_data.last_traded_price)) :
                  Iteration(tick_data, now, ind)

(***************************************************************************)
(* getCandleData returns (or raises) and the interrupted iteration runs to *)
(* its end: lines 141-155, then 246-261.                                   *)
(***************************************************************************)
FetchReturn(resp, ind) ==
    LET token == inflight.token
        ranges == get_opening_range_retroactively(opening_ranges, token,
                                                  inflight.day_open, resp)
    IN  /\ pc = "fetch"
        /\ opening_ranges' = ranges
        /\ scan_results' =
             EvaluateBreakout(scan_results, ranges, data_store, token,
                              inflight.price, ind)
        /\ pc' = "get"
        /\ inflight' = NoInflight
        /\ last' = [last EXCEPT !.path = IF FetchSucceeded(resp) THEN "retro_ok"
                                         ELSE "retro_fallback"]
        /\ scored' = IF Scoring(ranges, token, inflight.price) THEN ind
                     ELSE NoIndicators
        /\ published' = "none"
        /\ UNCHANGED <<data_queue, data_store, index_data, clock, retro_calls,
                       gated, once, received, snapshot, response, premarket>>

\* the steps of the process for a feed and the times the loop may read
Step(feed, times) ==
    \/ \E message \in feed : on_data(message)
    \/ ProcessTick(times)
    \/ \E resp \in Responses(MaxCandles) :
         \E ind \in IndicatorChoices(data_store,
                     get_opening_range_retroactively(opening_ranges, inflight.token,
                                                     inflight.day_open, resp),
                     inflight.token, inflight.price) :
           FetchReturn(resp, ind)

Next == Step(Ticks, ClockValues(1))
Spec == Init /\ [][Next]_vars

(***************************************************************************)
(* The same process followed over MaxDay days: nothing restarts it or      *)
(* clears its state at midnight.                                           *)
(***************************************************************************)
NextDays == Step(DayTicks, ClockValues(MaxDay))
SpecDays == Init /\ [][NextDays]_vars

(***************************************************************************)
(* One trading day on which every tick carries a bid and an ask.           *)
(***************************************************************************)
NextQuoted == Step(QuotedTicks, ClockValues(1))
SpecQuoted == Init /\ [][NextQuoted]_vars

(***************************************************************************)
(* One instrument whose cumulative volume rises and falls from tick to     *)
(* tick, as it does when the exchange restarts the day's count.            *)
(***************************************************************************)
NextBars == Step(BarTicks, ClockValues(1))
SpecBars == Init /\ [][NextBars]_vars

(***************************************************************************)
(* One trading day of a feed with incomplete ticks and index ticks.        *)
(***************************************************************************)
NextIntake == Step(IntakeTicks, ClockValues(1))
SpecIntake == Init /\ [][NextIntake]_vars

(***************************************************************************)
(* The engine at 09:29 after about half an hour of quiet ticks, one a      *)
(* minute, the Bullish instrument at 200.00 and the Bearish one at 201.00: *)
(* each has MIN_BARS - 2, MIN_BARS - 1 or MIN_BARS bars, and a range at    *)
(* the quiet price if the ticks inside the window carried a bid and an     *)
(* ask, none if they did not.  The specification follows the engine for    *)
(* one more tick, read at 09:30, which adds a bar and breaks out.          *)
(***************************************************************************)
QuietBars(n, newest, price) ==
    [i \in 1 .. n |->
        [timestamp |-> newest - n + i, open |-> price, high |-> price,
         low |-> price, close |-> price, volume |-> IF i = 1 THEN 1 ELSE 0,
         last_volume |-> 1]]

QuietPrice(t) == IF t = "T1" THEN 200 ELSE 201
QuietLengths == {MIN_BARS - 2, MIN_BARS - 1, MIN_BARS}

ScoreTicks ==
    { Tick("T1", 20100, 20000, 1, FullBook), Tick("T2", 20000, 20000, 1, FullBook) }
ScoreMinutes == {570}

InitScore ==
    /\ data_queue = << >>
    /\ \E n \in [{"T1", "T2"} -> QuietLengths] :
         data_store = [t \in {"T1", "T2"} |-> QuietBars(n[t], 569, QuietPrice(t))]
    /\ scan_results = EmptyDict
    /\ \E quoted \in BOOLEAN :
         opening_ranges =
            IF quoted
            THEN [t \in {"T1", "T2"} |-> [high |-> QuietPrice(t), low |-> QuietPrice(t)]]
            ELSE EmptyDict
    /\ index_data = EmptyDict
    /\ clock = 569
    /\ pc = "get"
    /\ inflight = NoInflight
    /\ last = [tick |-> NoTick, path |-> "none"]
    /\ scored = NoIndicators
    /\ retro_calls = [t \in Stocks |-> 0]
    /\ gated = {}
    /\ once = EmptyDict
    /\ received = MaxTicks - 1
    /\ snapshot = NoSnapshot
    /\ published = "none"
    /\ response = << >>
    /\ premarket = NotCalled

NextScore == Step(ScoreTicks, ScoreMinutes)
SpecScore == InitScore /\ [][NextScore]_vars

(***************************************************************************)
(* The same engine, both instruments with MIN_BARS bars, followed for two  *)
(* more ticks of a feed that also delivers ticks whose handling raises.    *)
(***************************************************************************)
InitFaults ==
    /\ data_queue = << >>
    /\ data_store = [t \in {"T1", "T2"} |-> QuietBars(MIN_BARS, 569, QuietPrice(t))]
    /\ scan_results = EmptyDict
    /\ \E quoted \in BOOLEAN :
         opening_ranges =
            IF quoted
            THEN [t \in {"T1", "T2"} |-> [high |-> QuietPrice(t), low |-> QuietPrice(t)]]
            ELSE EmptyDict
    /\ index_data = EmptyDict
    /\ clock = 569
    /\ pc = "get"
    /\ inflight = NoInflight
    /\ last = [tick |-> NoTick, path |-> "none"]
    /\ scored = NoIndicators
    /\ retro_calls = [t \in Stocks |-> 0]
    /\ gated = {}
    /\ once = EmptyDict
    /\ received = MaxTicks - 2
    /\ snapshot = NoSnapshot
    /\ published = "none"
    /\ response = << >>
    /\ premarket = NotCalled

NextFaults == Step(FaultTicks \cup ScoreTicks, ScoreMinutes)
SpecFaults == InitFaults /\ [][NextFaults]_vars

(***************************************************************************)
(* broadcast_realtime_scan_results, lines 59-98 of main.py: every five     *)
(* seconds, if there is a Signal or an IndexState, the Signals are copied  *)
(* with their token in the order of the dictionary, split by bias (score   *)
(* above 0), sorted by score, highest first, by the stable list.sort, cut  *)
(* to the first five and sent with the IndexStates.                        *)
(***************************************************************************)
AllResults(results, order) ==
    LET held == SelectSeq(order, LAMBDA t : t \in DOMAIN results)
    IN  [i \in 1 .. Len(held) |->
            [symbol |-> results[held[i]].symbol, score |-> results[held[i]].score,
             price |-> results[held[i]].price, bias |-> results[held[i]].bias,
             token |-> held[i]]]

SelectBias(all_results, bias) ==
    SelectSeq(all_results, LAMBDA r : r.bias = bias /\ r.score > 0)

RECURSIVE InsertByScore(_, _)
InsertByScore(x, sorted) ==
    IF sorted = << >> THEN <<x>>
    ELSE IF Head(sorted).score >= x.score
         THEN <<Head(sorted)>> \o InsertByScore(x, Tail(sorted))
         ELSE <<x>> \o sorted

\* list.sort(key=score, reverse=True): equal scores keep their order
RECURSIVE SortByScore(_)
SortByScore(list) ==
    IF list = << >> THEN << >>
    ELSE InsertByScore(list[Len(list)], SortByScore(SubSeq(list, 1, Len(list) - 1)))

\* a cut that keeps the whole list
TopN_All(list, n) == list

\* list[:n]
TopN(list, n) == SubSeq(list, 1, Min(n, Len(list)))

RECURSIVE ValuesOf(_)
ValuesOf(d) ==
    IF DOMAIN d = {} THEN << >>
    ELSE LET k == CHOOSE x \in DOMAIN d : TRUE
         IN  <<d[k]>> \o ValuesOf(Pop(d, k))

\* a broadcaster that could run in the middle of an iteration of the consumer
LoopSuspended_Anywhere == TRUE

(***************************************************************************)
(* The broadcaster and the consumer are tasks of one event loop, so the    *)
(* broadcaster runs from its sleep to its "await manager.broadcast" only   *)
(* while the consumer is suspended.  The consumer is suspended nowhere but *)
(* at "await data_queue.get()": get_opening_range_retroactively awaits     *)
(* nothing, so the await of line 244 runs it, and getCandleData, to the    *)
(* end without giving up the event loop.                                   *)
(***************************************************************************)
LoopSuspended == pc \in {"get", "cancelled"}

\* if processing_engine.scan_results or processing_engine.index_data, line 67
SomethingToPublish(results, indices) == results # EmptyDict \/ indices # EmptyDict

\* one cycle: the code from the end of a sleep to the start of the next one
broadcast_realtime_scan_results(order) ==
    /\ LoopSuspended
    /\ IF SomethingToPublish(scan_results, index_data)
       THEN /\ LET all_results == AllResults(scan_results, order)
                   bullish_stocks == SortByScore(SelectBias(all_results, "Bullish"))
                   bearish_stocks == SortByScore(SelectBias(all_results, "Bearish"))
               IN  snapshot' = [bullish |-> TopN(bullish_stocks, TOP_N),
                                bearish |-> TopN(bearish_stocks, TOP_N),
                                indices |-> ValuesOf(index_data)]
            /\ published' = "sent"
       ELSE /\ snapshot' = snapshot
            /\ published' = "skipped"
    /\ UNCHANGED <<data_queue, data_store, scan_results, opening_ranges, index_data,
                   clock, pc, inflight, last, scored, retro_calls, gated, once,
                   received, response, premarket>>

(***************************************************************************)
(* The broadcaster on its own, over an engine that holds any set of        *)
(* Signals for a watchlist of MaxSignals instruments of either bias.  The  *)
(* dictionary hands out its Signals in the order of the watchlist or in    *)
(* the opposite order.                                                     *)
(***************************************************************************)
Watchlist == [i \in 1 .. MaxSignals |-> ToString(i)]
Reversed(list) == [i \in 1 .. Len(list) |-> list[Len(list) + 1 - i]]
DictOrders == {Watchlist, Reversed(Watchlist)}

SnapshotScores == {100, 120}
Unsignalled == [bias |-> "None", score |-> 0]
SignalChoices ==
    {Unsignalled} \cup [bias : {"Bullish", "Bearish"}, score : SnapshotScores]

InitSnapshot ==
    /\ data_queue = << >>
    /\ data_store = EmptyDict
    /\ \E held \in [1 .. MaxSignals -> SignalChoices] :
         scan_results =
            [t \in { Watchlist[i] : i \in { j \in 1 .. MaxSignals : held[j] # Unsignalled } }
               |-> LET c == held[CHOOSE i \in 1 .. MaxSignals : Watchlist[i] = t]
                   IN  [symbol |-> t, score |-> c.score, price |-> 201,
                        bias |-> c.bias]]
    /\ opening_ranges = EmptyDict
    /\ index_data \in {EmptyDict, [t \in Indices |-> IndexState(t, 201, 20000)]}
    /\ clock = 570
    /\ pc = "get"
    /\ inflight = NoInflight
    /\ last = [tick |-> NoTick, path |-> "none"]
    /\ scored = NoIndicators
    /\ retro_calls = [t \in Stocks |-> 0]
    /\ gated = {}
    /\ once = EmptyDict
    /\ received = 0
    /\ snapshot = NoSnapshot
    /\ published = "none"
    /\ response = << >>
    /\ premarket = NotCalled

NextSnapshot == \E order \in DictOrders : broadcast_realtime_scan_results(order)
SpecSnapshot == InitSnapshot /\ [][NextSnapshot]_vars

(***************************************************************************)
(* The two tasks lifespan creates, side by side: the consumer, fed with    *)
(* ticks of the Bullish and the Bearish instrument and of the index, and   *)
(* the broadcaster.  The watchlist has one instrument of each bias, so a   *)
(* list of a snapshot has at most one entry and the order in which the     *)
(* dictionary hands out its Signals makes no difference.                   *)
(***************************************************************************)
PublishTicks ==
    { Tick("T1", p, 20000, 1, FullBook) : p \in {20000, 20100} }
    \cup { Tick("T2", 20000, 20000, 1, FullBook) }
    \cup { Tick(tok, 20100, 20000, 1, NoBook) : tok \in Indices }

StockOrder == <<"T1", "T2", "T3">>

NextPublish ==
    \/ Step(PublishTicks, ClockValues(1))
    \/ broadcast_realtime_scan_results(StockOrder)
SpecPublish == Init /\ [][NextPublish]_vars

(***************************************************************************)
(* The bar update of lines 206-215 statement by statement, next to the     *)
(* threads that run beside the event loop.  get_intraday_history is a      *)
(* plain "def" endpoint, which FastAPI runs on a worker thread, and        *)
(* on_data is called on the thread of the feed: both can run between any   *)
(* two statements of the consumer.  The ticks of this feed carry no bid    *)
(* and no ask, so an iteration ends at the continue of line 221, right     *)
(* after the bar update.  The consumer's position is "get", or the column  *)
(* the next df.at of lines 211-215 writes; inflight holds the bar read at  *)
(* line 210 (before) and the values computed from it and from the tick     *)
(* (target).                                                               *)
(***************************************************************************)
ThreadTicks == { Tick("T1", p, 20000, 1, NoBook) : p \in Prices }

BarColumns == <<"high", "low", "close", "volume", "last_volume">>
Writing == { BarColumns[i] : i \in 1 .. Len(BarColumns) }
ColumnAfter(column) ==
    LET i == CHOOSE j \in 1 .. Len(BarColumns) : BarColumns[j] = column
    IN  IF i < Len(BarColumns) THEN BarColumns[i + 1] ELSE "get"

\* lines 170-210, and line 207 for the first tick of a minute
BeginBarUpdate(tick_data, now) ==
    LET token == tick_data.token
        price == Rupees(tick_data.last_traded_price)
        df == IF token \in DOMAIN data_store THEN data_store[token] ELSE << >>
        updated == UpdateBars(df, now, price, tick_data.volume_trade_for_the_day)
    IN  /\ data_queue' = Tail(data_queue)
        /\ clock' = now
        /\ IF HasBar(df, now)
           THEN /\ data_store' = data_store
                /\ pc' = BarColumns[1]
                /\ inflight' = [token |-> token, ts |-> now,
                                before |-> df[BarAt(df, now)],
                                target |-> updated[BarAt(df, now)]]
                /\ last' = [tick |-> tick_data, path |-> "update"]
           ELSE /\ data_store' = Put(data_store, token, updated)
                /\ pc' = "get"
                /\ inflight' = NoInflight
                /\ last' = [tick |-> tick_data, path |-> "nobook"]
        /\ scored' = NoIndicators
        /\ published' = "none"
        /\ UNCHANGED <<scan_results, opening_ranges, index_data, retro_calls, gated,
                       once, received, snapshot, response, premarket>>

\* one df.at of lines 211-215; after the last one, lines 218-221
WriteBarColumn ==
    /\ pc \in Writing
    /\ LET df == data_store[inflight.token]
           i == BarAt(df, inflight.ts)
       IN  data_store' =
              [data_store EXCEPT ![inflight.token] =
                  [df EXCEPT ![i] = [@ EXCEPT ![pc] = inflight.target[pc]]]]
    /\ pc' = ColumnAfter(pc)
    /\ inflight' = IF ColumnAfter(pc) = "get" THEN NoInflight ELSE inflight
    /\ last' = [last EXCEPT !.path = IF ColumnAfter(pc) = "get" THEN "nobook" ELSE @]
    /\ UNCHANGED <<data_queue, scan_results, opening_ranges, index_data, clock,
                   scored, retro_calls, gated, once, received, snapshot, published,
                   response, premarket>>

\* chart_data of get_intraday_history: time, open, high, low, close of a bar
ChartRow(bar) ==
    [time |-> bar.timestamp, open |-> bar.open, high |-> bar.high, low |-> bar.low,
     close |-> bar.close]

\* GET /intraday-history/{token}, lines 186-196 of main.py
get_intraday_history(token) ==
    /\ response' =
          IF token \notin DOMAIN data_store \/ data_store[token] = << >>
          THEN <<[error |-> "No intraday data available for this token."]>>
          ELSE [i \in 1 .. Len(data_store[token]) |-> ChartRow(data_store[token][i])]
    /\ UNCHANGED <<data_queue, data_store, scan_results, opening_ranges, index_data,
                   clock, pc, inflight, last, scored, retro_calls, gated, once,
                   received, snapshot, published, premarket>>

\* a loop whose handler for every exception also takes the cancellation
AfterCancel_Swallowed == "get"

\* except asyncio.CancelledError: raise, lines 263-265
AfterCancel == "cancelled"

(***************************************************************************)
(* The task of the consumer is cancelled.  CancelledError is raised at the *)
(* await at which the task is suspended, and that is line 170.             *)
(***************************************************************************)
Cancel ==
    /\ pc = "get"
    /\ pc' = AfterCancel
    /\ last' = [last EXCEPT !.path = "cancel"]
    /\ UNCHANGED <<data_queue, data_store, scan_results, opening_ranges, index_data,
                   clock, inflight, scored, retro_calls, gated, once, received,
                   snapshot, published, response, premarket>>

NextThreads ==
    \/ \E message \in ThreadTicks : on_data(message)
    \/ /\ pc = "get"
       /\ data_queue # << >>
       /\ \E now \in ClockValues(1) :
            now >= clock /\ BeginBarUpdate(Head(data_queue), now)
    \/ WriteBarColumn
    \/ get_intraday_history("T1")
    \/ Cancel
SpecThreads == Init /\ [][NextThreads]_vars

(***************************************************************************)
(* fetch_historical_data of premarket_scanner.py, lines 12-43, called once *)
(* for a token: up to three passes of a for loop, each with one call of    *)
(* getCandleData.  A response is a call that raises, or a dictionary of    *)
(* which the function reads whether its message speaks of the access rate, *)
(* its status, and its list of daily candles (here: how many it holds).    *)
(***************************************************************************)
retries == 3
first_delay == 2             \* seconds
KEPT_DAYS == 30              \* df.iloc[-30:]

DailyRows == {0, 1, 31}
DailyResponses ==
    { [raises |-> TRUE, rate_limited |-> FALSE, status |-> FALSE, rows |-> 0] }
    \cup [raises : {FALSE}, rate_limited : BOOLEAN, status : BOOLEAN, rows : DailyRows]

\* data.get("message") and "exceeding access rate" in data["message"]
RateLimited(data) == ~data.raises /\ data.rate_limited

\* data.get("status") and data.get("data")
DailySucceeded(data) == data.status /\ data.rows > 0

\* a backoff that does not grow
NextDelay_Same(delay) == delay

\* delay *= 2
NextDelay(delay) == delay * 2

InitPremarket ==
    /\ data_queue = << >>
    /\ data_store = EmptyDict
    /\ scan_results = EmptyDict
    /\ opening_ranges = EmptyDict
    /\ index_data = EmptyDict
    /\ clock = 554
    /\ pc = "get"
    /\ inflight = NoInflight
    /\ last = [tick |-> NoTick, path |-> "none"]
    /\ scored = NoIndicators
    /\ retro_calls = [t \in Stocks |-> 0]
    /\ gated = {}
    /\ once = EmptyDict
    /\ received = 0
    /\ snapshot = NoSnapshot
    /\ published = "none"
    /\ response = << >>
    /\ \E token \in Stocks :
         premarket = [token |-> token, i |-> 0, delay |-> first_delay,
                      result |-> "running", rows |-> 0, responses |-> << >>,
                      sleeps |-> << >>]

\* one pass of the loop, and the return after the loop when it was the last
fetch_historical_data(data) ==
    /\ premarket.result = "running"
    /\ premarket.i < retries
    /\ premarket' =
          IF data.raises \/ RateLimited(data)
          THEN [premarket EXCEPT
                   !.i = @ + 1,
                   !.responses = Append(@, data),
                   !.sleeps = Append(@, premarket.delay),
                   !.delay = NextDelay(@),
                   !.result = IF premarket.i + 1 < retries THEN "running" ELSE "None"]
          ELSE IF DailySucceeded(data)
          THEN [premarket EXCEPT
                   !.responses = Append(@, data),
                   !.result = "data",
                   !.rows = Min(data.rows, KEPT_DAYS)]
          ELSE [premarket EXCEPT
                   !.responses = Append(@, data),
                   !.result = "None"]
    /\ UNCHANGED <<data_queue, data_store, scan_results, opening_ranges, index_data,
                   clock, pc, inflight, last, scored, retro_calls, gated, once,
                   received, snapshot, published, response>>

NextPremarket == \E data \in DailyResponses : fetch_historical_data(data)
SpecPremarket == InitPremarket /\ [][NextPremarket]_vars

(***************************************************************************)
(* get_opening_range_retroactively on its own: the function is called      *)
(* twice for one instrument and one day (one open_price_of_day), and the   *)
(* external fetch answers each call as it likes.                           *)
(***************************************************************************)
RetroOpens == {199, 200, 201}            \* rupees

InitRetro ==
    /\ data_queue = << >>
    /\ data_store = EmptyDict
    /\ scan_results = EmptyDict
    /\ opening_ranges = EmptyDict
    /\ index_data = EmptyDict
    /\ clock = 570
    /\ pc = "fetch"
    /\ \E t \in Stocks : \E o \in RetroOpens :
         inflight = [token |-> t, price |-> o, day_open |-> o]
    /\ last = [tick |-> NoTick, path |-> "none"]
    /\ scored = NoIndicators
    /\ retro_calls = [t \in Stocks |-> 0]
    /\ gated = {}
    /\ once = EmptyDict
    /\ received = 0
    /\ snapshot = NoSnapshot
    /\ published = "none"
    /\ response = << >>
    /\ premarket = NotCalled

RetroCall(resp) ==
    LET token == inflight.token
        ranges == get_opening_range_retroactively(opening_ranges, token,
                                                  inflight.day_open, resp)
    IN  /\ retro_calls[token] < 2
        /\ opening_ranges' = ranges
        /\ retro_calls' = [retro_calls EXCEPT ![token] = @ + 1]
        /\ once' = IF retro_calls[token] = 0 THEN ranges ELSE once
        /\ UNCHANGED <<data_queue, data_store, scan_results, index_data, clock,
                       pc, inflight, last, scored, gated, received, snapshot,
                       published, response, premarket>>

NextRetro == \E resp \in Responses(MaxCandles + 1) : RetroCall(resp)

SpecRetro == InitRetro /\ [][NextRetro]_vars

(***************************************************************************)
(* Properties.  They read the tick handled last from the tick itself       *)
(* (last.tick), in the units of the feed, and not from the branch the      *)
(* model took for it.                                                      *)
(***************************************************************************)
\* an iteration of the loop has run to its end in this state
Handled == last.path # "none" /\ pc = "get"

\* a tick for an instrument of the watchlist with every required field
CompleteStockTick(t) ==
    /\ t.token \in Stocks
    /\ t.last_traded_price # NONE
    /\ t.open_price_of_the_day # NONE
    /\ t.volume_trade_for_the_day # NONE

TickPrice(t) == t.last_traded_price \div 100

HasBidAndAsk(t) ==
    /\ Len(t.best_5_buy_price_and_quantity) > 0
    /\ Len(t.best_5_sell_price_and_quantity) > 0

\* (ask - bid) / price * 100 > 0.5, all three in paise
SpreadAbove(t) ==
    /\ HasBidAndAsk(t)
    /\ 200 * (t.best_5_sell_price_and_quantity[1].price
              - t.best_5_buy_price_and_quantity[1].price) > t.last_traded_price

PassesFilter(t) == HasBidAndAsk(t) /\ ~SpreadAbove(t)

WindowOpenAt(c) ==
    opening_range_start <= c % MinutesPerDay /\ c % MinutesPerDay < opening_range_end
WindowOverAt(c) == c % MinutesPerDay >= opening_range_end

\* price is beyond the range of token t in the direction of its bias
Beyond(ranges, t, price) ==
    /\ t \in DOMAIN ranges
    /\ \/ TOKEN_MAP[t].bias = "Bullish" /\ price > ranges[t].high
       \/ TOKEN_MAP[t].bias = "Bearish" /\ price < ranges[t].low

RangeHolds(ranges, t, price) ==
    /\ t \in DOMAIN ranges
    /\ ranges[t].low <= price
    /\ price <= ranges[t].high

C2_InWindowWidens ==
    (Handled /\ CompleteStockTick(last.tick) /\ WindowOpenAt(clock))
    => RangeHolds(opening_ranges, last.tick.token, TickPrice(last.tick))

(***************************************************************************)
(* C3.  After a post-window tick that passes the liquidity filter (bid and *)
(* ask present, spread at most 0.5%) is handled, its instrument has a      *)
(* Signal exactly if the price is strictly beyond the range in the         *)
(* direction of the bias; no instrument of another bias has a Signal.      *)
(***************************************************************************)
C3_BreakoutRule ==
    /\ \A t \in DOMAIN scan_results : TOKEN_MAP[t].bias \in {"Bullish", "Bearish"}
    /\ (Handled /\ CompleteStockTick(last.tick) /\ WindowOverAt(clock)
        /\ PassesFilter(last.tick))
       => (last.tick.token \in DOMAIN scan_results
           <=> Beyond(opening_ranges, last.tick.token, TickPrice(last.tick)))

\* a tick priced exactly at the high of a Bullish instrument leaves no Signal
C3_Witness ==
    /\ Handled /\ CompleteStockTick(last.tick) /\ WindowOverAt(clock)
    /\ PassesFilter(last.tick)
    /\ TOKEN_MAP[last.tick.token].bias = "Bullish"
    /\ last.tick.token \in DOMAIN opening_ranges
    /\ TickPrice(last.tick) = opening_ranges[last.tick.token].high
    /\ last.tick.token \notin DOMAIN scan_results
    /\ \E t \in DOMAIN scan_results : TOKEN_MAP[t].bias = "Bearish"

(***************************************************************************)
(* C4.  The liquidity gate is per tick.  A step that handles a tick whose  *)
(* spread exceeds 0.5% leaves its instrument without a Signal; a Signal    *)
(* appears for an instrument only in a step that handles a tick of that    *)
(* instrument with an acceptable spread and a qualifying breakout; and     *)
(* every post-window step that handles such a tick leaves a Signal.        *)
(***************************************************************************)
C4_LiquidityGate ==
    [][LET t == last'.tick
           done == last'.path # "none" /\ pc' = "get"
       IN  /\ (done /\ CompleteStockTick(t) /\ SpreadAbove(t))
              => t.token \notin DOMAIN scan_results'
           /\ \A k \in Stocks :
                (k \notin DOMAIN scan_results /\ k \in DOMAIN scan_results')
                => (/\ t.token = k
                    /\ PassesFilter(t)
                    /\ Beyond(opening_ranges', k, TickPrice(t)))
           /\ (done /\ CompleteStockTick(t) /\ WindowOverAt(clock')
               /\ PassesFilter(t) /\ Beyond(opening_ranges', t.token, TickPrice(t)))
              => t.token \in DOMAIN scan_results']_vars

\* a Signal the filter removed is there again
C4_Witness == \E t \in gated : t \in DOMAIN scan_results

(***************************************************************************)
(* C5.  After any complete post-window stock tick whose price is not       *)
(* beyond the range in the direction of the bias is handled, the           *)
(* instrument has no Signal.                                               *)
(***************************************************************************)
C5_ReversalRemoves ==
    (Handled /\ CompleteStockTick(last.tick) /\ WindowOverAt(clock)
     /\ ~Beyond(opening_ranges, last.tick.token, TickPrice(last.tick)))
    => last.tick.token \notin DOMAIN scan_results

(***************************************************************************)
(* C6.  A tick without a best bid or a best ask is not stopped by the      *)
(* liquidity filter: inside the window it takes part in range collection,  *)
(* after the window its instrument has a range and is evaluated for        *)
(* breakout.                                                               *)
(***************************************************************************)
C6_MissingBookDoesNotBlock ==
    (Handled /\ CompleteStockTick(last.tick) /\ ~HasBidAndAsk(last.tick))
    => /\ WindowOpenAt(clock)
          => RangeHolds(opening_ranges, last.tick.token, TickPrice(last.tick))
       /\ WindowOverAt(clock)
          => /\ last.tick.token \in DOMAIN opening_ranges
             /\ last.tick.token \in DOMAIN scan_results
                <=> Beyond(opening_ranges, last.tick.token, TickPrice(last.tick))

(***************************************************************************)
(* C7.  While the historical fetch for one instrument is outstanding, a    *)
(* queued tick of another instrument can be dequeued and applied.          *)
(***************************************************************************)
C7_FetchDoesNotStall ==
    (/\ pc = "fetch"
     /\ data_queue # << >>
     /\ Head(data_queue).token # inflight.token)
    => ENABLED ProcessTick(ClockValues(1))

(***************************************************************************)
(* C8.  get_opening_range_retroactively is invoked at most once per        *)
(* instrument, and only by a post-window tick of an instrument that has no *)
(* range.                                                                  *)
(***************************************************************************)
C8_RetroAtMostOnce ==
    [][\A t \in Stocks :
          /\ retro_calls'[t] <= 1
          /\ retro_calls'[t] > retro_calls[t]
             => /\ t \notin DOMAIN opening_ranges
                /\ WindowOverAt(clock')
                /\ last'.tick.token = t]_vars

\* a later post-window tick of an instrument whose range was fetched is
\* evaluated without another fetch
C8_Witness ==
    /\ Handled
    /\ last.path = "evaluate"
    /\ WindowOverAt(clock)
    /\ retro_calls[last.tick.token] = 1

(***************************************************************************)
(* C9.  Calling get_opening_range_retroactively twice for one instrument   *)
(* and day leaves the range the first call left.                           *)
(***************************************************************************)
C9_RetroIdempotent ==
    \A t \in Stocks :
        retro_calls[t] = 2 => (t \in DOMAIN once /\ opening_ranges[t] = once[t])

(***************************************************************************)
(* C10.  Whenever get_opening_range_retroactively has returned for an      *)
(* instrument, the instrument has a range, from then on; after a failed    *)
(* fetch the range holds the day's opening price; the tick that caused the *)
(* fetch is evaluated for breakout against it, and so is every later       *)
(* post-window tick that passes the liquidity filter.                      *)
(***************************************************************************)
C10_FallbackDefined ==
    /\ \A t \in Stocks :
         (retro_calls[t] > 0 /\ ~(pc = "fetch" /\ inflight.token = t))
         => t \in DOMAIN opening_ranges
    /\ last.path = "retro_fallback"
       => RangeHolds(opening_ranges, last.tick.token,
                     last.tick.open_price_of_the_day \div 100)
    /\ last.path \in {"retro_ok", "retro_fallback"}
       => (last.tick.token \in DOMAIN scan_results
           <=> Beyond(opening_ranges, last.tick.token, TickPrice(last.tick)))
    /\ (Handled /\ CompleteStockTick(last.tick) /\ WindowOverAt(clock)
        /\ PassesFilter(last.tick) /\ retro_calls[last.tick.token] > 0)
       => (last.tick.token \in DOMAIN scan_results
           <=> Beyond(opening_ranges, last.tick.token, TickPrice(last.tick)))

\* the fetch failed and the tick that caused it broke out of the fallback range
C10_Witness ==
    /\ last.path = "retro_fallback"
    /\ last.tick.token \in DOMAIN scan_results
    /\ opening_ranges[last.tick.token].high = last.tick.open_price_of_the_day \div 100
    /\ opening_ranges[last.tick.token].low = last.tick.open_price_of_the_day \div 100

(***************************************************************************)
(* C11.  Every bar of every instrument has low <= open <= high,            *)
(* low <= close <= high and volume >= 0.                                   *)
(***************************************************************************)
C11_BarShape ==
    \A t \in DOMAIN data_store :
        \A i \in 1 .. Len(data_store[t]) :
            LET bar == data_store[t][i]
            IN  /\ bar.low <= bar.open /\ bar.open <= bar.high
                /\ bar.low <= bar.close /\ bar.close <= bar.high
                /\ bar.volume >= 0

\* a bar that opened between its low and its high, closed on a tick whose
\* cumulative volume had fallen
C11_Witness ==
    /\ Handled
    /\ \E t \in DOMAIN data_store :
         \E i \in 1 .. Len(data_store[t]) :
            LET bar == data_store[t][i]
            IN  /\ bar.low < bar.open /\ bar.open < bar.high
                /\ bar.last_volume < bar.volume

\* the volume of the bar of minute ts, 0 when the minute has no bar
BarVolume(store, k, ts) ==
    IF k \in DOMAIN store /\ \E i \in 1 .. Len(store[k]) : store[k][i].timestamp = ts
    THEN store[k][CHOOSE i \in 1 .. Len(store[k]) : store[k][i].timestamp = ts].volume
    ELSE 0

\* the cumulative volume kept with the newest bar
LastSeenVolume(store, k) == store[k][Len(store[k])].last_volume

(***************************************************************************)
(* C12.  In the step that takes a tick of an instrument off the queue, the *)
(* bar of the minute grows by the tick's cumulative volume less the        *)
(* cumulative volume of the instrument's previous tick, and by exactly 0   *)
(* when that difference is negative; the cumulative volume kept for the    *)
(* next delta is the tick's own, also when it is the smaller one.          *)
(***************************************************************************)
C12_VolumeResetClamped ==
    [][(Len(data_queue') < Len(data_queue)
        /\ CompleteStockTick(Head(data_queue))
        /\ (last.path # "none" => last.tick.token = Head(data_queue).token))
       => LET t == Head(data_queue)
              k == t.token
              now == t.volume_trade_for_the_day
              prev == IF last.path = "none" THEN 0
                      ELSE last.tick.volume_trade_for_the_day
              grown == BarVolume(data_store', k, clock') - BarVolume(data_store, k, clock')
          IN  /\ now < prev => grown = 0
              /\ now >= prev => grown = now - prev
              /\ LastSeenVolume(data_store', k) = now]_vars

\* cumulative volumes 3, 1, 3 within one minute: the bar holds 3 + 0 + 2
C12_Witness ==
    /\ Handled
    /\ last.tick.volume_trade_for_the_day = 3
    /\ BarVolume(data_store, last.tick.token, clock) = 5

(***************************************************************************)
(* C13.  A Signal is created or changed only by a step whose tick was read *)
(* at or after 09:30, is a tick of that instrument, and leaves the         *)
(* instrument with a range; in particular no tick read before or inside    *)
(* the window does so, and while the range of an instrument is undefined   *)
(* (its fetch outstanding) its tick has produced no Signal.                *)
(***************************************************************************)
C13_NoSignalWithoutRange ==
    [][/\ \A k \in Stocks :
            (/\ k \in DOMAIN scan_results'
             /\ (k \notin DOMAIN scan_results \/ scan_results'[k] # scan_results[k]))
            => (/\ WindowOverAt(clock')
                /\ last'.tick.token = k
                /\ k \in DOMAIN opening_ranges')
       /\ \A k \in Stocks :
            k \notin DOMAIN opening_ranges' => k \notin DOMAIN scan_results']_vars

\* a tick read before 09:30 and priced beyond the range its instrument
\* already has leaves the instrument without a Signal
C13_Witness ==
    /\ Handled /\ CompleteStockTick(last.tick) /\ PassesFilter(last.tick)
    /\ ~WindowOverAt(clock)
    /\ Beyond(opening_ranges, last.tick.token, TickPrice(last.tick))
    /\ last.tick.token \notin DOMAIN scan_results

\* the step is one of the consumer: a tick leaves the queue or the fetch returns
LoopStep == pc = "fetch" \/ Len(data_queue') < Len(data_queue)

\* the entry of key k in dictionary d, as a set with at most one element
Entry(d, k) == IF k \in DOMAIN d THEN {d[k]} ELSE {}

\* the three confirmation conditions, for a bias, on the indicator values
RsiCondition(bias, ind) ==
    \/ bias = "Bullish" /\ ind.rsi > 65
    \/ bias = "Bearish" /\ ind.rsi < 35
MacdCondition(bias, ind) ==
    \/ bias = "Bullish" /\ ind.prev_macd < 0 /\ ind.last_macd > 0
    \/ bias = "Bearish" /\ ind.prev_macd > 0 /\ ind.last_macd < 0
VwapCondition(bias, ind) ==
    \/ bias = "Bullish" /\ ind.close_vwap > 0
    \/ bias = "Bearish" /\ ind.close_vwap < 0

\* the indicators could be computed: 30 bars, no error, two valid rows
Readable(ind, nbars) == nbars >= 30 /\ ~ind.raises /\ ind.rows >= 2

Weight(condition, w) == IF condition THEN w ELSE 0

Confirmation(bias, ind, nbars) ==
    IF Readable(ind, nbars)
    THEN Weight(RsiCondition(bias, ind), 40) + Weight(MacdCondition(bias, ind), 40)
         + Weight(VwapCondition(bias, ind), 20)
    ELSE 0

(***************************************************************************)
(* C14.  A step of the consumer that ends the handling of a post-window    *)
(* tick which passes the liquidity filter and breaks out leaves a Signal   *)
(* whose score is 100 + 40*[RSI] + 40*[MACD cross] + 20*[VWAP], the        *)
(* conditions taken for the bias of the instrument on the indicator values *)
(* of its bar series (none holds when the indicators could not be          *)
(* computed); the score is one of 100, 120, ..., 200, and 200 when all     *)
(* three hold.  The step changes nothing but that Signal, the bar of the   *)
(* tick and, after a fetch, the range of the instrument.                   *)
(***************************************************************************)
C14_ScoreComposition ==
    [][/\ \A k \in DOMAIN scan_results' :
            scan_results'[k].score \in {100, 120, 140, 160, 180, 200}
       /\ LET t == last'.tick
              k == t.token
          IN  (/\ LoopStep /\ pc' = "get"
               /\ CompleteStockTick(t) /\ WindowOverAt(clock') /\ PassesFilter(t)
               /\ Beyond(opening_ranges', k, TickPrice(t)))
              => /\ k \in DOMAIN scan_results'
                 /\ scan_results'[k].score
                      = 100 + Confirmation(TOKEN_MAP[k].bias, scored',
                                           Len(data_store'[k]))
                 /\ (/\ Readable(scored', Len(data_store'[k]))
                     /\ RsiCondition(TOKEN_MAP[k].bias, scored')
                     /\ MacdCondition(TOKEN_MAP[k].bias, scored')
                     /\ VwapCondition(TOKEN_MAP[k].bias, scored'))
                    => scan_results'[k].score = 200
                 /\ index_data' = index_data
                 /\ pc = "fetch" => data_store' = data_store
                 /\ pc = "get" => opening_ranges' = opening_ranges
                 /\ \A j \in Stocks \ {k} :
                      /\ Entry(data_store', j) = Entry(data_store, j)
                      /\ Entry(opening_ranges', j) = Entry(opening_ranges, j)
                      /\ Entry(scan_results', j) = Entry(scan_results, j)]_vars

\* a Bearish instrument with 30 bars breaks out with RSI below 35, a MACD
\* cross down and the close below VWAP: its Signal scores 200
C14_Witness ==
    /\ Handled
    /\ last.tick.token \in DOMAIN scan_results
    /\ TOKEN_MAP[last.tick.token].bias = "Bearish"
    /\ Len(data_store[last.tick.token]) = 30
    /\ scored.rsi < 35 /\ scored.prev_macd > 0 /\ scored.last_macd < 0
    /\ scored.close_vwap < 0
    /\ scan_results[last.tick.token].score = 200

(***************************************************************************)
(* C15.  The Signal of an instrument with fewer than 30 bars has score     *)
(* exactly 100, whatever the indicator values: the confirmation score of a *)
(* series that short is 0.                                                 *)
(***************************************************************************)
C15_ShortHistoryScores100 ==
    \A k \in DOMAIN scan_results :
        (k \in DOMAIN data_store /\ Len(data_store[k]) < 30)
        => scan_results[k].score = 100

\* a Bullish instrument with 29 bars breaks out while all three conditions
\* hold on the indicator values: its Signal scores 100
C15_Witness ==
    /\ Handled
    /\ last.tick.token \in DOMAIN scan_results
    /\ TOKEN_MAP[last.tick.token].bias = "Bullish"
    /\ Len(data_store[last.tick.token]) = 29
    /\ ~scored.raises /\ scored.rows >= 2
    /\ scored.rsi > 65 /\ scored.prev_macd < 0 /\ scored.last_macd > 0
    /\ scored.close_vwap > 0
    /\ scan_results[last.tick.token].score = 100

\* the handling of the tick raises before the end of the iteration
Faulty(t) ==
    \/ t.last_traded_price = BAD
    \/ t.volume_trade_for_the_day = BAD
    \/ \E key \in {"best_5_buy_price_and_quantity", "best_5_sell_price_and_quantity"} :
          Len(t[key]) > 0 /\ t[key][1].price = BAD

(***************************************************************************)
(* C16.  Every step of the consumer leaves it inside its loop, and after a *)
(* tick whose handling raised it is back at the queue, ready for the next  *)
(* tick; the step leaves the bars, the range and the Signal of every       *)
(* instrument other than the tick's as they were; and a Signal written     *)
(* while the score computation raised has confirmation score 0.            *)
(***************************************************************************)
C16_FailureIsolation ==
    [][LoopStep
       => LET t == last'.tick
          IN  /\ pc' \in {"get", "fetch"}
              /\ Faulty(t) => pc' = "get"
              /\ \A j \in Stocks \ {t.token} :
                   /\ Entry(data_store', j) = Entry(data_store, j)
                   /\ Entry(opening_ranges', j) = Entry(opening_ranges, j)
                   /\ Entry(scan_results', j) = Entry(scan_results, j)
              /\ (scored'.raises /\ t.token \in DOMAIN scan_results')
                 => scan_results'[t.token].score = 100]_vars

\* after a tick of T1 failed on its book (its bar is there, it has no range)
\* the next tick, of T2, has been handled and has left a Signal
C16_Witness ==
    /\ Handled
    /\ last.tick.token = "T2"
    /\ "T2" \in DOMAIN scan_results
    /\ Len(data_store["T1"]) = MIN_BARS + 1
    /\ "T1" \notin DOMAIN opening_ranges

\* one of the four required fields of the tick is absent
MissingRequired(t) ==
    \/ t.token = "None"
    \/ t.last_traded_price = NONE
    \/ t.open_price_of_the_day = NONE
    \/ t.volume_trade_for_the_day = NONE

(***************************************************************************)
(* C17.  The step that takes a tick without an instrument id, a last       *)
(* traded price, an opening price or a cumulative volume off the queue     *)
(* changes no bar, no range, no Signal and no IndexState, raises nothing   *)
(* and leaves the consumer at the queue.                                   *)
(***************************************************************************)
C17_IncompleteDropped ==
    [][(Len(data_queue') < Len(data_queue) /\ MissingRequired(Head(data_queue)))
       => /\ data_store' = data_store
          /\ opening_ranges' = opening_ranges
          /\ scan_results' = scan_results
          /\ index_data' = index_data
          /\ pc' = "get"
          /\ last'.path \notin {"raise_price", "raise_volume", "raise_book"}]_vars

\* a stock tick without cumulative volume was handled after its instrument
\* got bars, a range and a Signal
C17_Witness ==
    /\ Handled
    /\ last.tick.token = "T1"
    /\ last.tick.volume_trade_for_the_day = NONE
    /\ "T1" \in DOMAIN data_store
    /\ "T1" \in DOMAIN opening_ranges
    /\ "T1" \in DOMAIN scan_results

(***************************************************************************)
(* C18.  After a tick for a tracked index that carries a last price and an *)
(* opening price is handled, with or without a cumulative volume, the      *)
(* IndexState of that index shows the tick's last price.                   *)
(***************************************************************************)
C18_IndexNeedsNoVolume ==
    (/\ Handled
     /\ last.tick.token \in Indices
     /\ last.tick.last_traded_price # NONE
     /\ last.tick.open_price_of_the_day # NONE)
    => /\ last.tick.token \in DOMAIN index_data
       /\ index_data[last.tick.token].ltp = TickPrice(last.tick)

\* percent change, in hundredths of a percent, from prices in paise
PercentChange(ltp, open) == IF open > 0 THEN ((ltp - open) * 10000) \div open ELSE 0

(***************************************************************************)
(* C19.  The step that takes a complete tick of a tracked index off the    *)
(* queue, at any time of day and whatever its book, sets the IndexState of *)
(* that index to the tick's last price, change = price - open and percent  *)
(* change (0 when open <= 0), and changes no bar, no range and no Signal.  *)
(***************************************************************************)
C19_IndexHandling ==
    [][LET t == Head(data_queue)
       IN  (/\ Len(data_queue') < Len(data_queue)
            /\ t.token \in Indices
            /\ ~MissingRequired(t))
           => /\ t.token \in DOMAIN index_data'
              /\ index_data'[t.token].name = INDEX_TOKENS[t.token]
              /\ index_data'[t.token].ltp = TickPrice(t)
              /\ index_data'[t.token].change
                   = TickPrice(t) - t.open_price_of_the_day \div 100
              /\ index_data'[t.token].percent_change
                   = PercentChange(t.last_traded_price, t.open_price_of_the_day)
              /\ data_store' = data_store
              /\ opening_ranges' = opening_ranges
              /\ scan_results' = scan_results
              /\ pc' = "get"]_vars

\* an index tick with a book whose spread is too wide, read after an
\* instrument got its Signal: the index is down half a percent
C19_Witness ==
    /\ Handled
    /\ last.tick.token \in Indices
    /\ HasBidAndAsk(last.tick) /\ SpreadAbove(last.tick)
    /\ index_data[last.tick.token].percent_change = -50
    /\ WindowOverAt(clock)
    /\ "T1" \in DOMAIN scan_results

\* list holds Signals of one bias, highest score first, at most five, and
\* no Signal of that bias outside it scores more than one inside it
Ranked(list, bias) ==
    /\ Len(list) <= 5
    /\ \A i \in 1 .. Len(list) :
         /\ list[i].bias = bias
         /\ list[i].token \in DOMAIN scan_results
         /\ scan_results[list[i].token].bias = bias
         /\ scan_results[list[i].token].score = list[i].score
    /\ \A i, j \in 1 .. Len(list) :
         i < j => (list[i].score >= list[j].score /\ list[i].token # list[j].token)
    /\ \A t \in DOMAIN scan_results :
         (scan_results[t].bias = bias /\ \A i \in 1 .. Len(list) : list[i].token # t)
         => \A i \in 1 .. Len(list) : scan_results[t].score <= list[i].score

(***************************************************************************)
(* C20.  The bullish list of a snapshot holds only Bullish Signals and the *)
(* bearish list only Bearish ones; each list is sorted by score, highest   *)
(* first, has at most 5 entries, and no Signal left out of it has a higher *)
(* score than one that is in it.                                           *)
(***************************************************************************)
C20_SnapshotRanking ==
    /\ Ranked(snapshot.bullish, "Bullish")
    /\ Ranked(snapshot.bearish, "Bearish")

\* six Bullish Signals: five are listed, from 120 down to 100, and the
\* sixth, which scores 100, is left out
C20_Witness ==
    /\ Len(snapshot.bullish) = 5
    /\ snapshot.bullish[1].score = 120
    /\ snapshot.bullish[5].score = 100
    /\ \E t \in DOMAIN scan_results :
         /\ scan_results[t].bias = "Bullish"
         /\ scan_results[t].score = 100
         /\ \A i \in 1 .. 5 : snapshot.bullish[i].token # t

\* the instruments a snapshot lists
Listed(snap) ==
    { snap.bullish[i].token : i \in 1 .. Len(snap.bullish) }
    \cup { snap.bearish[i].token : i \in 1 .. Len(snap.bearish) }

(***************************************************************************)
(* C21.  After every cycle of the broadcaster, whether or not a tick has   *)
(* arrived since the cycle before, the snapshot delivered last lists the   *)
(* instruments that have a Signal now: an instrument whose Signal was      *)
(* removed is no longer in it, also when no Signal is left.                *)
(***************************************************************************)
C21_PublishCadence ==
    published # "none" => Listed(snapshot) = DOMAIN scan_results

(***************************************************************************)
(* C22.  The queue never holds more than a fixed number of ticks: there is *)
(* a bound, below the depth to which the queue is followed, that it never  *)
(* exceeds, a tick delivered to a queue at the bound being dropped.        *)
(***************************************************************************)
C22_Backpressure == \E bound \in 1 .. (MaxQueue - 1) : Len(data_queue) <= bound

\* the consumer is between two statements of lines 211-215
MidUpdate == pc \in {"high", "low", "close", "volume", "last_volume"}

(***************************************************************************)
(* C23.  No response of /intraday-history shows a bar half-updated: while  *)
(* a tick is being applied to a bar, the row a reader gets for that bar is *)
(* the row as it was before the tick or the row with every field updated.  *)
(***************************************************************************)
C23_AtomicBarUpdate ==
    [][(response' # response /\ MidUpdate)
       => \A i \in 1 .. Len(response') :
             response'[i].time = inflight.ts
             => \/ /\ response'[i].high = inflight.before.high
                   /\ response'[i].low = inflight.before.low
                   /\ response'[i].close = inflight.before.close
                \/ /\ response'[i].high = inflight.target.high
                   /\ response'[i].low = inflight.target.low
                   /\ response'[i].close = inflight.target.close]_vars

(***************************************************************************)
(* C24.  A tick delivered by the feed goes to the end of the queue; a tick *)
(* is taken off the queue only from its head, only while no tick is in     *)
(* flight (the consumer is at the queue, the handling of the tick before   *)
(* it complete), and it is the tick handled next; and a step that is not   *)
(* one of the consumer changes no bar, no range and no Signal.             *)
(***************************************************************************)
C24_SerializedIngestion ==
    [][/\ received' > received
          => /\ Len(data_queue') = Len(data_queue) + 1
             /\ SubSeq(data_queue', 1, Len(data_queue)) = data_queue
       /\ Len(data_queue') < Len(data_queue)
          => /\ pc = "get"
             /\ inflight = NoInflight
             /\ data_queue' = Tail(data_queue)
             /\ last'.tick = Head(data_queue)
       /\ pc = "fetch" => Len(data_queue') >= Len(data_queue)
       /\ ~LoopStep
          => /\ data_store' = data_store
             /\ opening_ranges' = opening_ranges
             /\ scan_results' = scan_results]_vars

\* while the fetch for one tick is outstanding, two ticks of different
\* instruments wait in the queue
C24_Witness ==
    /\ pc = "fetch"
    /\ Len(data_queue) >= 2
    /\ data_queue[1].token # data_queue[2].token

\* list holds, for each Signal of the bias in results, one copy of it with
\* its token, and nothing else
CopiesOf(list, results, bias) ==
    /\ \A i \in 1 .. Len(list) :
         /\ list[i].token \in DOMAIN results
         /\ list[i].bias = bias
         /\ results[list[i].token]
              = [symbol |-> list[i].symbol, score |-> list[i].score,
                 price |-> list[i].price, bias |-> list[i].bias]
    /\ \A t \in DOMAIN results :
         results[t].bias = bias
         => Cardinality({ i \in 1 .. Len(list) : list[i].token = t }) = 1

\* list holds each IndexState of indices once
ValuesIn(list, indices) ==
    /\ Len(list) = Cardinality(DOMAIN indices)
    /\ \A t \in DOMAIN indices : \E i \in 1 .. Len(list) : list[i] = indices[t]

(***************************************************************************)
(* C25.  A snapshot is built in one step, taken while the consumer is at   *)
(* the queue, between the handling of two ticks, and it holds a copy of    *)
(* every Signal and every IndexState of that state and nothing else; no    *)
(* step of the consumer or of the feed changes a snapshot once built.      *)
(***************************************************************************)
C25_ConsistentSnapshot ==
    [][/\ snapshot' # snapshot
          => /\ pc = "get" /\ pc' = "get"
             /\ scan_results' = scan_results /\ index_data' = index_data
             /\ CopiesOf(snapshot'.bullish, scan_results, "Bullish")
             /\ CopiesOf(snapshot'.bearish, scan_results, "Bearish")
             /\ ValuesIn(snapshot'.indices, index_data)
       /\ (LoopStep \/ received' > received) => snapshot' = snapshot]_vars

\* a snapshot with the Signal of T1 and the index, after a later tick has
\* removed the Signal
C25_Witness ==
    /\ Handled
    /\ published = "none"
    /\ \E i \in 1 .. Len(snapshot.bullish) : snapshot.bullish[i].token = "T1"
    /\ Len(snapshot.indices) = 1
    /\ "T1" \notin DOMAIN scan_results

\* the newest bar of the instrument of tick t shows t applied in full
AppliedInFull(store, t) ==
    /\ t.token \in DOMAIN store
    /\ Len(store[t.token]) > 0
    /\ LET bar == store[t.token][Len(store[t.token])]
       IN  /\ bar.close = TickPrice(t)
           /\ bar.low <= TickPrice(t) /\ TickPrice(t) <= bar.high
           /\ bar.last_volume = t.volume_trade_for_the_day

(***************************************************************************)
(* C26.  Once the cancellation has been delivered the consumer has left    *)
(* its loop and stays out of it: it takes no further tick off the queue    *)
(* and changes no bar.  When it stops, the tick it handled last is applied *)
(* in full (close, high, low and cumulative volume of the newest bar of    *)
(* its instrument all reflect it) and no bar update is under way.          *)
(***************************************************************************)
C26_CooperativeShutdown ==
    [][/\ last'.path = "cancel" => pc' = "cancelled"
       /\ pc = "cancelled"
          => /\ pc' = "cancelled"
             /\ data_store' = data_store
             /\ Len(data_queue') >= Len(data_queue)
       /\ pc' = "cancelled"
          => /\ inflight' = NoInflight
             /\ last'.tick # NoTick => AppliedInFull(data_store', last'.tick)]_vars

\* cancelled with a tick still in the queue, after a bar was updated in
\* place by a tick at another price
C26_Witness ==
    /\ pc = "cancelled"
    /\ data_queue # << >>
    /\ "T1" \in DOMAIN data_store
    /\ \E i \in 1 .. Len(data_store["T1"]) :
          data_store["T1"][i].low < data_store["T1"][i].high

(***************************************************************************)
(* C27.  The fallback range is installed only after the historical fetch   *)
(* has been tried again: when a failed fetch has led to the fallback, the  *)
(* fetch for that instrument has been attempted at least twice.  (Each     *)
(* call of get_opening_range_retroactively makes one request, line 140.)   *)
(***************************************************************************)
C27_BoundedRetry ==
    last.path = "retro_fallback" => retro_calls[last.tick.token] >= 2

(***************************************************************************)
(* C28.  The step that handles the first tick of a new day, when that tick *)
(* is read inside the opening window and passes the liquidity filter,      *)
(* leaves its instrument with the range high = low = price of the tick,    *)
(* whatever range an earlier day left behind.                              *)
(***************************************************************************)
C28_RangePerDay ==
    [][LET t == Head(data_queue)
       IN  (/\ Len(data_queue') < Len(data_queue)
            /\ CompleteStockTick(t) /\ PassesFilter(t)
            /\ WindowOpenAt(clock')
            /\ clock' \div MinutesPerDay > clock \div MinutesPerDay)
           => /\ t.token \in DOMAIN opening_ranges'
              /\ opening_ranges'[t.token]
                   = [high |-> TickPrice(t), low |-> TickPrice(t)]]_vars

(***************************************************************************)
(* C29.  The step that handles a tick equal to the tick handled just       *)
(* before it (same instrument, price and cumulative volume), read in the   *)
(* same minute, leaves every bar as it was: the volume of the bar grows by *)
(* 0 and open, high, low and close keep their values.                      *)
(***************************************************************************)
C29_DuplicateIdempotent ==
    [][(/\ Len(data_queue') < Len(data_queue)
        /\ CompleteStockTick(Head(data_queue))
        /\ Handled
        /\ Head(data_queue) = last.tick
        /\ clock' = clock)
       => /\ data_store' = data_store
          /\ BarVolume(data_store', last.tick.token, clock')
               = BarVolume(data_store, last.tick.token, clock)]_vars

\* two ticks were handled and left one bar with volume 1 at a single price:
\* both carried the cumulative volume 1 and the same price, in one minute
C29_Witness ==
    /\ Handled
    /\ received = 2 /\ data_queue = << >>
    /\ "T1" \in DOMAIN data_store
    /\ Len(data_store["T1"]) = 1
    /\ data_store["T1"][1].volume = 1
    /\ data_store["T1"][1].last_volume = 1
    /\ data_store["T1"][1].high = data_store["T1"][1].low

\* the bar series of instrument k, empty when it has none
Series(store, k) == IF k \in DOMAIN store THEN store[k] ELSE << >>

(***************************************************************************)
(* C30.  In every step, for every instrument: the timestamps of the series *)
(* are strictly increasing in insertion order (so a minute has at most one *)
(* bar); every bar that was there is still there, at its place, with its   *)
(* timestamp and its open; at most one bar is added, at the end, by a tick *)
(* of the instrument, for the minute the tick was read in, with open =     *)
(* high = low = close = price of the tick; and after a tick of the         *)
(* instrument with well-formed fields is taken off the queue the bar of    *)
(* its minute is the newest one and closes at the tick's price.            *)
(***************************************************************************)
C30_BarLifecycle ==
    [][\A k \in Stocks :
          LET old == Series(data_store, k)
              new == Series(data_store', k)
              t == last'.tick
          IN  /\ \A i, j \in 1 .. Len(new) :
                    i < j => new[i].timestamp < new[j].timestamp
              /\ Len(new) >= Len(old)
              /\ \A i \in 1 .. Len(old) :
                    /\ new[i].timestamp = old[i].timestamp
                    /\ new[i].open = old[i].open
              /\ Len(new) > Len(old)
                 => /\ Len(new) = Len(old) + 1
                    /\ t.token = k
                    /\ new[Len(new)].timestamp = clock'
                    /\ new[Len(new)].open = TickPrice(t)
                    /\ new[Len(new)].high = TickPrice(t)
                    /\ new[Len(new)].low = TickPrice(t)
                    /\ new[Len(new)].close = TickPrice(t)
              /\ (/\ Len(data_queue') < Len(data_queue)
                  /\ CompleteStockTick(Head(data_queue))
                  /\ ~Faulty(Head(data_queue))
                  /\ Head(data_queue).token = k)
                 => /\ Len(new) > 0
                    /\ new[Len(new)].timestamp = clock'
                    /\ new[Len(new)].close = TickPrice(Head(data_queue))]_vars

\* two bars, the first opened at one price and closed at another, the
\* second newer
C30_Witness ==
    /\ Handled
    /\ "T1" \in DOMAIN data_store
    /\ Len(data_store["T1"]) = 2
    /\ data_store["T1"][1].open # data_store["T1"][1].close
    /\ data_store["T1"][1].timestamp < data_store["T1"][2].timestamp

(***************************************************************************)
(* C31.  Every Signal of the Signal map has bias Bullish or Bearish, a     *)
(* score of at least 100 (so above the 0 the broadcaster asks for), and a  *)
(* price strictly beyond the range its instrument has now, above the high  *)
(* for Bullish and below the low for Bearish.                              *)
(***************************************************************************)
C31_StoredSignal ==
    \A k \in DOMAIN scan_results :
        /\ scan_results[k].bias \in {"Bullish", "Bearish"}
        /\ scan_results[k].score >= 100
        /\ k \in DOMAIN opening_ranges
        /\ scan_results[k].bias = "Bullish"
           => scan_results[k].price > opening_ranges[k].high
        /\ scan_results[k].bias = "Bearish"
           => scan_results[k].price < opening_ranges[k].low

RECURSIVE SumOfVolumes(_)
SumOfVolumes(series) ==
    IF series = << >> THEN 0
    ELSE series[1].volume + SumOfVolumes(Tail(series))

\* the volumes of the bars of instrument k add up to the cumulative volume
\* of the tick of k handled last (0 before its first tick)
Conserved(store, k) ==
    SumOfVolumes(Series(store, k))
        = IF Series(store, k) = << >> THEN 0
          ELSE Series(store, k)[Len(Series(store, k))].last_volume

(***************************************************************************)
(* C32.  As long as the cumulative volumes of the ticks of an instrument   *)
(* do not decrease, the volumes of its bars add up to the cumulative       *)
(* volume of its last tick.  By induction on the ticks: the step that      *)
(* handles a tick of an instrument whose bar volumes add up to the         *)
(* cumulative volume of its previous tick (to 0 when it is the first) and  *)
(* whose own cumulative volume is no smaller leaves bars whose volumes add *)
(* up to the cumulative volume of that tick, within a minute and across    *)
(* minutes.                                                                *)
(***************************************************************************)
C32_VolumeConservation ==
    [][LET t == Head(data_queue)
           k == t.token
           before == IF Series(data_store, k) = << >> THEN 0
                     ELSE LastSeenVolume(data_store, k)
       IN  (/\ Len(data_queue') < Len(data_queue)
            /\ CompleteStockTick(t) /\ ~Faulty(t)
            /\ Conserved(data_store, k)
            /\ t.volume_trade_for_the_day >= before)
           => /\ Conserved(data_store', k)
              /\ SumOfVolumes(Series(data_store', k))
                   = t.volume_trade_for_the_day]_vars

\* cumulative volumes 1 and then 3 in a later minute: bars of volume 1 and 2
C32_Witness ==
    /\ Handled
    /\ "T1" \in DOMAIN data_store
    /\ Len(data_store["T1"]) = 2
    /\ data_store["T1"][1].volume = 1
    /\ data_store["T1"][2].volume = 2
    /\ last.tick.volume_trade_for_the_day = 3

\* the response is a rate-limit response or the call raised
Retried(r) == r.raises \/ r.rate_limited

\* the response is a successful one
Successful(r) == ~Retried(r) /\ r.status /\ r.rows > 0

RECURSIVE TwoToThe(_)
TwoToThe(n) == IF n = 0 THEN 1 ELSE 2 * TwoToThe(n - 1)

(***************************************************************************)
(* C33.  fetch_historical_data calls the provider at most 3 times.  Every  *)
(* response but the last one was a rate-limit response or an exception,    *)
(* and after the n-th of these the function slept 2, then 4 seconds, twice *)
(* as long each time.  It has returned the data (its last 30 rows at most) *)
(* exactly if the last response was successful, None exactly if the last   *)
(* response was unsuccessful without being a rate-limit response or an     *)
(* exception, or was the third response, and it is still running exactly   *)
(* if fewer than 3 calls were made and none has ended it.                  *)
(***************************************************************************)
C33_BoundedFetch ==
    premarket.result # "not called"
    => LET got == premarket.responses
           n == Len(got)
           retried == Cardinality({ k \in 1 .. n : Retried(got[k]) })
       IN  /\ n <= 3
           /\ \A k \in 1 .. (n - 1) : Retried(got[k])
           /\ Len(premarket.sleeps) = retried
           /\ \A k \in 1 .. Len(premarket.sleeps) : premarket.sleeps[k] = TwoToThe(k)
           /\ premarket.result = "running"
                <=> (n < 3 /\ (n = 0 \/ Retried(got[n])))
           /\ premarket.result = "data" <=> (n > 0 /\ Successful(got[n]))
           /\ premarket.result = "data"
                => premarket.rows = Min(got[n].rows, 30)
           /\ premarket.result = "None"
                <=> (/\ n > 0
                     /\ ~Successful(got[n])
                     /\ (Retried(got[n]) => n = 3))

\* an exception, a rate-limit response and another exception: three calls,
\* sleeps of 2, 4 and 8 seconds, None
C33_Witness ==
    /\ premarket.result = "None"
    /\ Len(premarket.responses) = 3
    /\ premarket.responses[1].raises
    /\ premarket.responses[2].rate_limited
    /\ premarket.responses[3].raises
    /\ premarket.sleeps = <<2, 4, 8>>

====
